---- MODULE Spec2Model ----
(***************************************************************************)
(* Model of src/src/request.ts: request(), sendHeader(), sendBody(),       *)
(* parseResponse() and doOnTargetTime(), driven by the Node event loop     *)
(* (socket events and 1 ms interval ticks) and a millisecond clock.        *)
(***************************************************************************)
EXTENDS Integers, Sequences, FiniteSets

VARIABLES options, serverBytes, now, pc, timers, writes, responseData,
          outcome, sock

vars == <<options, serverBytes, now, pc, timers, writes, responseData,
          outcome, sock>>

----------------------------------------------------------------------------
(* Bounds of the model *)

\* clock values are 1..MaxTime (milliseconds)
MaxTime == 3
\* target times are 0..MaxTarget
MaxTarget == 2
\* request bodies have at most MaxBodyLen characters
MaxBodyLen == 2

----------------------------------------------------------------------------
(* Values of type Time = string | number | Date, and an omitted targetTime *)

Undefined == [type |-> "undefined", form |-> "none", ms |-> 0]

TimeValues ==
  {[type |-> ty, form |-> "value", ms |-> n] :
      ty \in {"number", "string", "Date"}, n \in 0..MaxTarget}
  \cup {[type |-> "string", form |-> f, ms |-> 0] : f \in {"empty", "invalid"}}

\* if (targetTime): JavaScript truthiness of a Time | undefined
Truthy(t) ==
  CASE t.type = "undefined" -> FALSE
    [] t.type = "number" -> t.ms # 0
    [] t.type = "string" -> t.form # "empty"
    [] OTHER -> TRUE

\* new Date(targetTime).getTime(): a number of milliseconds, or NaN
GetTime(t) ==
  IF t.form = "value" THEN [nan |-> FALSE, ms |-> t.ms]
                      ELSE [nan |-> TRUE, ms |-> 0]

\* Date.now() >= targetTimeNumber (false whenever the target is NaN)
TimeReachedAlways(t, target) == TRUE
TimeReached(t, target) == ~target.nan /\ t >= target.ms

----------------------------------------------------------------------------
(* Strings, bytes and header objects *)

Digits == <<"0", "1", "2", "3", "4", "5", "6", "7", "8", "9">>

\* Number.prototype.toString() of a non-negative integer
RECURSIVE NumberToString(_)
NumberToString(n) ==
  IF n < 10 THEN Digits[n + 1]
            ELSE NumberToString(n \div 10) \o Digits[(n % 10) + 1]

BodyChars == {"a", "e'"}

\* Buffer.from(str): UTF-8, one byte for "a", two for e-acute
Utf8(c) == IF c = "a" THEN <<"61">> ELSE <<"C3", "A9">>

RECURSIVE BufferFrom(_)
BufferFrom(str) ==
  IF str = <<>> THEN <<>> ELSE Utf8(Head(str)) \o BufferFrom(Tail(str))

ByteLength(str) == Len(BufferFrom(str))

\* obj[key] = value on a JavaScript object kept as its entries in insertion
\* order: an existing key keeps its place, a new key goes last.
RECURSIVE SetKey(_, _, _)
SetKey(obj, key, value) ==
  IF obj = <<>> THEN <<<<key, value>>>>
  ELSE IF Head(obj)[1] = key THEN <<<<key, value>>>> \o Tail(obj)
  ELSE <<Head(obj)>> \o SetKey(Tail(obj), key, value)

\* {...a, ...b}
RECURSIVE Spread(_, _)
Spread(a, b) ==
  IF b = <<>> THEN a ELSE Spread(SetKey(a, Head(b)[1], Head(b)[2]), Tail(b))

----------------------------------------------------------------------------
(* request(): options, headers, body *)

RECURSIVE StringsUpTo(_)
StringsUpTo(n) ==
  IF n = 0 THEN {<<>>}
  ELSE LET S == StringsUpTo(n - 1)
       IN S \cup {Append(s, c) : s \in {x \in S : Len(x) = n - 1}, c \in BodyChars}

Methods == {"GET", "HEAD", "POST"}
Bodies == StringsUpTo(MaxBodyLen)
CallerHeaders ==
  { <<>>,
    << <<"Content-Length", "9">> >>,
    << <<"content-length", "9">> >>,
    << <<"Accept", "text/html">> >> }
TargetTimes == {Undefined} \cup TimeValues

HostName == "localhost"
PathName == "/"

\* const requestHeaders = { Host, Connection, accept, ...headers }
DefaultHeaders ==
  << <<"Host", HostName>>, <<"Connection", "keep-alive">>,
     <<"accept", "application/json">> >>

\* const isHasBodyRequest = !!body && method !== 'GET' && method !== 'HEAD'
IsHasBodyRequestAnyMethod(o) == o.body # <<>>
IsHasBodyRequest(o) == o.body # <<>> /\ o.method # "GET" /\ o.method # "HEAD"

ContentLengthValue(o) == NumberToString(ByteLength(o.body))

RequestHeadersAlwaysLength(o) ==
  SetKey(Spread(DefaultHeaders, o.headers), "Content-Length", ContentLengthValue(o))
RequestHeaders(o) ==
  LET merged == Spread(DefaultHeaders, o.headers)
  IN IF IsHasBodyRequest(o)
       THEN SetKey(merged, "Content-Length", ContentLengthValue(o))
       ELSE merged

\* the targetTime argument request() passes to sendHeader
HeaderTargetTimeAlways(o) == o.targetTime
HeaderTargetTime(o) == IF IsHasBodyRequest(o) THEN Undefined ELSE o.targetTime

----------------------------------------------------------------------------
(* socket.write: the log of writes issued on the socket *)

CRLF == <<"\r", "\n">>
EmptyRow == CRLF \o CRLF

Write(unit, line, headers, bytes, timed) ==
  [unit |-> unit, line |-> line, headers |-> headers, bytes |-> bytes,
   at |-> now, ended |-> sock.ended, timed |-> timed]

\* requestLine = `${method} ${path} HTTP/1.1\r\n`, without the CRLF
RequestLine(o) == o.method \o " " \o PathName \o " HTTP/1.1"

HeadWrite(o) == Write("head", RequestLine(o), RequestHeaders(o), <<>>, FALSE)
EmptyRowWrite(timed) == Write("emptyRow", "", <<>>, EmptyRow, timed)

\* Uint8Array.prototype.slice.call(buffer, 0, buffer.length - 1)
BaseChunkWhole(buffer) == buffer
BaseChunk(buffer) == SubSeq(buffer, 1, Len(buffer) - 1)
\* Uint8Array.prototype.slice.call(buffer, buffer.length - 1, buffer.length)
EndChunk(buffer) == SubSeq(buffer, Len(buffer), Len(buffer))

BaseChunkWrite(o) == Write("baseChunk", "", <<>>, BaseChunk(BufferFrom(o.body)), FALSE)
EndChunkWrite(o, timed) ==
  Write("endChunk", "", <<>>, EndChunk(BufferFrom(o.body)), timed)

----------------------------------------------------------------------------
(* doOnTargetTime: the armed intervals *)

\* setInterval(..., 1): a new armed interval; nothing is called yet
DoOnTargetTimeSync(ts, callback, targetTime) ==
  LET due == TimeReached(now, GetTime(targetTime))
  IN Append(ts, [cb |-> callback, target |-> GetTime(targetTime),
                 armed |-> ~due,
                 calledAt |-> IF due THEN <<now>> ELSE <<>>, lastIdle |-> 0])
DoOnTargetTime(ts, callback, targetTime) ==
  Append(ts, [cb |-> callback, target |-> GetTime(targetTime), armed |-> TRUE,
              calledAt |-> <<>>, lastIdle |-> 0])

\* clearInterval(timeout)
ClearIntervalForgotten(t) == t
ClearInterval(t) == [t EXCEPT !.armed = FALSE]

----------------------------------------------------------------------------
(* parseResponse: http-parser-js run over the whole accumulated buffer *)

UpperLetters == <<"A", "B", "C", "D", "E", "F", "G", "H", "I", "J", "K", "L", "M", "N", "O", "P", "Q", "R", "S", "T", "U", "V", "W", "X", "Y", "Z">>
LowerLetters == <<"a", "b", "c", "d", "e", "f", "g", "h", "i", "j", "k", "l", "m", "n", "o", "p", "q", "r", "s", "t", "u", "v", "w", "x", "y", "z">>
HexDigits == <<"0", "1", "2", "3", "4", "5", "6", "7", "8", "9", "a", "b", "c", "d", "e", "f">>

\* smallest i with seq[i] = x, or 0
IndexOf(seq, x) ==
  IF \E i \in 1..Len(seq) : seq[i] = x
    THEN CHOOSE i \in 1..Len(seq) : seq[i] = x /\ \A j \in 1..(i - 1) : seq[j] # x
    ELSE 0

LowerChar(c) ==
  LET i == IndexOf(UpperLetters, c) IN IF i = 0 THEN c ELSE LowerLetters[i]

\* key.toLowerCase() on a string kept as its characters
ToLowerCase(str) == [i \in 1..Len(str) |-> LowerChar(str[i])]

IsDigit(c) == IndexOf(Digits, c) # 0
DigitValue(c) == IndexOf(Digits, c) - 1
IsHexDigit(c) == IndexOf(HexDigits, LowerChar(c)) # 0
HexValue(c) == IndexOf(HexDigits, LowerChar(c)) - 1

\* +str for a string of decimal digits
RECURSIVE DecimalNumber(_)
DecimalNumber(str) ==
  IF str = <<>> THEN 0
  ELSE 10 * DecimalNumber(SubSeq(str, 1, Len(str) - 1)) + DigitValue(str[Len(str)])

IsDecimal(str) == str # <<>> /\ \A i \in 1..Len(str) : IsDigit(str[i])

\* parseInt(line, 16): the value of the leading hex digits; NaN reads as 0
\* here because the parser only tests !this.body_bytes
RECURSIVE ParseHex(_, _)
ParseHex(str, acc) ==
  IF str = <<>> \/ ~IsHexDigit(Head(str)) THEN acc
  ELSE ParseHex(Tail(str), 16 * acc + HexValue(Head(str)))

IsBlank(c) == c = " " \/ c = "\t"

RECURSIVE TrimLeft(_)
TrimLeft(str) ==
  IF str # <<>> /\ IsBlank(Head(str)) THEN TrimLeft(Tail(str)) ELSE str

RECURSIVE TrimRight(_)
TrimRight(str) ==
  IF str # <<>> /\ IsBlank(str[Len(str)])
    THEN TrimRight(SubSeq(str, 1, Len(str) - 1)) ELSE str

HttpSlash == <<"H", "T", "T", "P", "/">>

\* responseExp = /^HTTP\/(\d)\.(\d) (\d{3}) ?(.*)$/
MatchesResponseLine(line) ==
  /\ Len(line) >= 12
  /\ SubSeq(line, 1, 5) = HttpSlash
  /\ IsDigit(line[6]) /\ line[7] = "." /\ IsDigit(line[8]) /\ line[9] = " "
  /\ IsDigit(line[10]) /\ IsDigit(line[11]) /\ IsDigit(line[12])

StatusCodeOf(line) == DecimalNumber(SubSeq(line, 10, 12))
StatusMessageOf(line) ==
  IF Len(line) >= 13 /\ line[13] = " " THEN SubSeq(line, 14, Len(line))
                                       ELSE SubSeq(line, 13, Len(line))

\* headerExp = /^([^: \t]+):[ \t]*((?:.*[^ \t])|)/
HeaderNameEnd(line) ==
  IF \E i \in 1..Len(line) : line[i] = ":" \/ IsBlank(line[i])
    THEN CHOOSE i \in 1..Len(line) :
           /\ line[i] = ":" \/ IsBlank(line[i])
           /\ \A j \in 1..(i - 1) : ~(line[j] = ":" \/ IsBlank(line[j]))
    ELSE 0

MatchesHeader(line) ==
  LET e == HeaderNameEnd(line) IN e > 1 /\ line[e] = ":"

HeaderName(line) == SubSeq(line, 1, HeaderNameEnd(line) - 1)
HeaderValue(line) ==
  TrimRight(TrimLeft(SubSeq(line, HeaderNameEnd(line) + 1, Len(line))))

LcContentLength == <<"c", "o", "n", "t", "e", "n", "t", "-", "l", "e", "n", "g", "t", "h">>
LcTransferEncoding == <<"t", "r", "a", "n", "s", "f", "e", "r", "-", "e", "n", "c", "o", "d", "i", "n", "g">>
LcChunked == <<"c", "h", "u", "n", "k", "e", "d">>

\* the parser and the response object its callbacks fill; bodyBytes -1 is
\* null (no length known)
NewParser(raw) ==
  [state |-> "RESPONSE_LINE", rest |-> raw, infoStatus |-> 0,
   infoMessage |-> <<>>, infoHeaders |-> <<>>, bodyBytes |-> -1,
   isChunked |-> FALSE, hadError |-> FALSE,
   statusCode |-> 0, statusText |-> <<>>, headers |-> <<>>,
   bodyChunks |-> <<>>, bodySet |-> FALSE, body |-> <<>>]

\* consumeLine: the next line without its LF and a CR before it
HasLine(ps) == IndexOf(ps.rest, "\n") # 0
LineOf(ps) ==
  LET raw == SubSeq(ps.rest, 1, IndexOf(ps.rest, "\n") - 1)
  IN IF raw # <<>> /\ raw[Len(raw)] = "\r" THEN SubSeq(raw, 1, Len(raw) - 1)
                                           ELSE raw
AfterLine(ps) == SubSeq(ps.rest, IndexOf(ps.rest, "\n") + 1, Len(ps.rest))
\* no LF in the buffer: the partial line is kept and the chunk is used up
Starved(ps) == [ps EXCEPT !.rest = <<>>]

RECURSIVE Concat(_)
Concat(chunks) ==
  IF chunks = <<>> THEN <<>> ELSE Head(chunks) \o Concat(Tail(chunks))

\* parser[kOnHeadersComplete]
RECURSIVE StoreHeaders(_, _)
StoreHeaders(obj, list) ==
  IF list = <<>> THEN obj
  ELSE StoreHeaders(SetKey(obj, ToLowerCase(Head(list)[1]), Head(list)[2]),
                    Tail(list))

OnHeadersComplete(ps) ==
  [ps EXCEPT !.statusCode = ps.infoStatus, !.statusText = ps.infoMessage,
             !.headers = StoreHeaders(ps.headers, ps.infoHeaders)]

\* parser[kOnBody]
OnBody(ps, bytes) == [ps EXCEPT !.bodyChunks = Append(ps.bodyChunks, bytes)]

\* parser[kOnMessageComplete]
OnMessageComplete(ps) ==
  [ps EXCEPT !.bodySet = TRUE, !.body = Concat(ps.bodyChunks)]

\* nextRequest(): report the message, start over for the next one
NextRequest(ps) ==
  [OnMessageComplete(ps) EXCEPT !.state = "RESPONSE_LINE", !.infoStatus = 0,
     !.infoMessage = <<>>, !.infoHeaders = <<>>, !.bodyBytes = -1,
     !.isChunked = FALSE]

ResponseLine(ps) ==
  IF ~HasLine(ps) THEN Starved(ps)
  ELSE LET line == LineOf(ps)
           q == [ps EXCEPT !.rest = AfterLine(ps)]
       IN IF line = <<>> THEN q
          ELSE IF ~MatchesResponseLine(line) THEN [q EXCEPT !.hadError = TRUE]
          ELSE LET code == StatusCodeOf(line)
               IN [q EXCEPT !.infoStatus = code,
                            !.infoMessage = StatusMessageOf(line),
                            !.bodyBytes =
                               IF code \div 100 = 1 \/ code = 204 \/ code = 304
                                 THEN 0 ELSE -1,
                            !.state = "HEADER"]

\* the framing the header list declares: <<isChunked, body_bytes>>
RECURSIVE Framing(_, _, _, _)
Framing(list, chunked, hasLength, bytes) ==
  IF list = <<>>
    THEN IF chunked /\ hasLength THEN <<TRUE, -1>> ELSE <<chunked, bytes>>
  ELSE LET k == ToLowerCase(Head(list)[1])
           v == Head(list)[2]
       IN IF k = LcTransferEncoding
            THEN Framing(Tail(list), ToLowerCase(v) = LcChunked, hasLength, bytes)
          ELSE IF k = LcContentLength /\ ~hasLength /\ IsDecimal(v)
            THEN Framing(Tail(list), chunked, TRUE, DecimalNumber(v))
          ELSE Framing(Tail(list), chunked, hasLength, bytes)

HeaderState(ps) ==
  IF ~HasLine(ps) THEN Starved(ps)
  ELSE LET line == LineOf(ps)
           q == [ps EXCEPT !.rest = AfterLine(ps)]
       IN IF line # <<>>
            THEN IF MatchesHeader(line)
                   THEN [q EXCEPT !.infoHeaders =
                           Append(ps.infoHeaders, <<HeaderName(line), HeaderValue(line)>>)]
                   ELSE q
          ELSE LET f == Framing(ps.infoHeaders, FALSE, FALSE, ps.bodyBytes)
                   r == OnHeadersComplete([q EXCEPT !.isChunked = f[1],
                                                    !.bodyBytes = f[2]])
               IN IF r.isChunked THEN [r EXCEPT !.state = "BODY_CHUNKHEAD"]
                  ELSE IF r.bodyBytes = 0 THEN NextRequest(r)
                  ELSE IF r.bodyBytes = -1 THEN [r EXCEPT !.state = "BODY_RAW"]
                  ELSE [r EXCEPT !.state = "BODY_SIZED"]

Min(a, b) == IF a < b THEN a ELSE b

BodyRaw(ps) == [OnBody(ps, ps.rest) EXCEPT !.rest = <<>>]

BodySized(ps) ==
  LET length == Min(Len(ps.rest), ps.bodyBytes)
      q == [OnBody(ps, SubSeq(ps.rest, 1, length)) EXCEPT
              !.rest = SubSeq(ps.rest, length + 1, Len(ps.rest)),
              !.bodyBytes = ps.bodyBytes - length]
  IN IF q.bodyBytes = 0 THEN NextRequest(q) ELSE q

BodyChunkHead(ps) ==
  IF ~HasLine(ps) THEN Starved(ps)
  ELSE LET n == ParseHex(LineOf(ps), 0)
       IN [ps EXCEPT !.rest = AfterLine(ps), !.bodyBytes = n,
                     !.state = IF n = 0 THEN "BODY_CHUNKTRAILERS" ELSE "BODY_CHUNK"]

BodyChunk(ps) ==
  LET length == Min(Len(ps.rest), ps.bodyBytes)
      q == [OnBody(ps, SubSeq(ps.rest, 1, length)) EXCEPT
              !.rest = SubSeq(ps.rest, length + 1, Len(ps.rest)),
              !.bodyBytes = ps.bodyBytes - length]
  IN IF q.bodyBytes = 0 THEN [q EXCEPT !.state = "BODY_CHUNKEMPTYLINE"] ELSE q

BodyChunkEmptyLine(ps) ==
  IF ~HasLine(ps) THEN Starved(ps)
  ELSE IF LineOf(ps) # <<>> THEN [ps EXCEPT !.rest = AfterLine(ps), !.hadError = TRUE]
  ELSE [ps EXCEPT !.rest = AfterLine(ps), !.state = "BODY_CHUNKHEAD"]

BodyChunkTrailers(ps) ==
  IF ~HasLine(ps) THEN Starved(ps)
  ELSE IF LineOf(ps) # <<>> THEN [ps EXCEPT !.rest = AfterLine(ps)]
  ELSE NextRequest([ps EXCEPT !.rest = AfterLine(ps)])

ParserStep(ps) ==
  CASE ps.state = "RESPONSE_LINE" -> ResponseLine(ps)
    [] ps.state = "HEADER" -> HeaderState(ps)
    [] ps.state = "BODY_RAW" -> BodyRaw(ps)
    [] ps.state = "BODY_SIZED" -> BodySized(ps)
    [] ps.state = "BODY_CHUNKHEAD" -> BodyChunkHead(ps)
    [] ps.state = "BODY_CHUNK" -> BodyChunk(ps)
    [] ps.state = "BODY_CHUNKEMPTYLINE" -> BodyChunkEmptyLine(ps)
    [] OTHER -> BodyChunkTrailers(ps)

\* parser.execute(rawResponse): while (this.offset < end) this[this.state]()
RECURSIVE Execute(_)
Execute(ps) ==
  IF ps.hadError \/ ps.rest = <<>> THEN ps ELSE Execute(ParserStep(ps))

\* parser.finish(): a body that runs to end of stream is reported complete
Finish(ps) ==
  IF ~ps.hadError /\ ps.state = "BODY_RAW" THEN OnMessageComplete(ps) ELSE ps

ZeroResponse ==
  [statusCode |-> 0, statusText |-> <<>>, headers |-> <<>>, body |-> <<>>]

\* the errors thrown inside try are caught and logged; the function returns
\* whatever the callbacks stored
ParseResponse(rawResponse) ==
  LET ps == Finish(Execute(NewParser(rawResponse)))
  IN [statusCode |-> ps.statusCode, statusText |-> ps.statusText,
      headers |-> ps.headers, body |-> IF ps.bodySet THEN ps.body ELSE <<>>]

\* whether parser[kOnMessageComplete] ran for the bytes given
MessageComplete(rawResponse) == Finish(Execute(NewParser(rawResponse))).bodySet

----------------------------------------------------------------------------
(* The server's response bytes: what the peer will send, in any chunking *)

StatusLine200 == <<"H", "T", "T", "P", "/", "1", ".", "1", " ", "2", "0", "0", " ", "O", "K">>
ContentLength2 == <<"C", "o", "n", "t", "e", "n", "t", "-", "L", "e", "n", "g", "t", "h", ":", " ", "2">>
TransferChunked == <<"T", "r", "a", "n", "s", "f", "e", "r", "-", "E", "n", "c", "o", "d", "i", "n", "g", ":", " ", "c", "h", "u", "n", "k", "e", "d">>
BodyOK == <<"O", "K">>
NotHttp == <<"N", "O", "T", " ", "H", "T", "T", "P">>

\* HTTP/1.1 200 OK, Content-Length: 2, body OK
ResponseSized == StatusLine200 \o CRLF \o ContentLength2 \o CRLF \o CRLF \o BodyOK
\* the same body as one chunk of size 2 and the zero chunk
ResponseChunked ==
  StatusLine200 \o CRLF \o TransferChunked \o CRLF \o CRLF
    \o <<"2">> \o CRLF \o BodyOK \o CRLF \o <<"0">> \o CRLF \o CRLF
\* neither Content-Length nor Transfer-Encoding: the body runs to end of stream
ResponseUntilClose == StatusLine200 \o CRLF \o CRLF \o BodyOK
\* not an HTTP response
ResponseMalformed == NotHttp \o CRLF \o CRLF
\* a bare blank line
ResponseBlankLine == CRLF

\* the sized response followed by a blank line the peer sends after the body
ResponseSizedExtra == ResponseSized \o CRLF

AllResponses ==
  {ResponseSized, ResponseChunked, ResponseUntilClose, ResponseMalformed,
   ResponseSizedExtra}

----------------------------------------------------------------------------
(* State *)

Pending == [state |-> "pending", value |-> ZeroResponse, at |-> 0, reason |-> ""]

\* resolve(value) / reject(reason): only the first settles the promise
Resolve(o, value, at) ==
  IF o.state = "pending"
    THEN [state |-> "resolved", value |-> value, at |-> at, reason |-> ""]
    ELSE o
RejectIgnored(o, reason) == o
Reject(o, reason) ==
  IF o.state = "pending"
    THEN [state |-> "rejected", value |-> ZeroResponse, at |-> 0, reason |-> reason]
    ELSE o

InitWith(optionSet, responseSet) ==
  /\ options \in optionSet
  /\ serverBytes \in responseSet
  /\ now = 1
  /\ pc = "connecting"
  /\ timers = <<>>
  /\ writes = <<>>
  /\ responseData = <<>>
  /\ outcome = Pending
  /\ sock = [ended |-> FALSE, errored |-> FALSE, peerEnded |-> FALSE]

AllOptions ==
  [method : Methods, body : Bodies, headers : CallerHeaders,
   targetTime : TargetTimes]

\* the requests of index.ts and test.ts (GET, no body), without and with a
\* target time, and a POST with a body
FewOptions ==
  [method : {"GET", "POST"}, body : {<<"a">>}, headers : {<<>>},
   targetTime : {Undefined, [type |-> "number", form |-> "value", ms |-> MaxTarget]}]

Init == InitWith(AllOptions, {ResponseBlankLine})

InitResponses == InitWith(FewOptions, AllResponses)

\* the same requests with every kind of target time a caller can pass
TimedOptions ==
  [method : {"GET", "POST"}, body : {<<"a">>}, headers : {<<>>},
   targetTime : TargetTimes]

InitTimed == InitWith(TimedOptions, {ResponseBlankLine})

----------------------------------------------------------------------------
(* Actions *)

\* the event loop runs a timer or socket callback only between tasks: not
\* while the .then() microtask of sendHeader is still queued
InEventLoop == pc # "headerSent"

\* the clock advances by one millisecond
Tick ==
  /\ now < MaxTime
  /\ now' = now + 1
  /\ UNCHANGED <<options, serverBytes, pc, timers, writes, responseData,
                 outcome, sock>>

\* connect() rejects: the await in request() throws
ConnectFail ==
  /\ pc = "connecting"
  /\ pc' = "failed"
  /\ outcome' = Reject(outcome, "connect")
  /\ UNCHANGED <<options, serverBytes, now, timers, writes, responseData,
                 sock>>

\* sendHeader(socket, {headers, method, path}, targetTime)
SendHeader(targetTime) ==
  IF Truthy(targetTime)
    THEN /\ writes' = Append(writes, HeadWrite(options))
         /\ timers' = DoOnTargetTime(timers, "emptyRow", targetTime)
    ELSE /\ writes' = writes \o <<HeadWrite(options), EmptyRowWrite(FALSE)>>
         /\ timers' = timers

\* connect() resolves: request() builds the headers, registers the socket
\* listeners and calls sendHeader
Connected ==
  /\ pc = "connecting"
  /\ pc' = "headerSent"
  /\ SendHeader(HeaderTargetTime(options))
  /\ UNCHANGED <<options, serverBytes, now, responseData, outcome, sock>>

\* sendBody(socket, body, targetTime)
SendBody(targetTime) ==
  IF Truthy(targetTime)
    THEN /\ writes' = Append(writes, BaseChunkWrite(options))
         /\ timers' = DoOnTargetTime(timers, "endChunk", targetTime)
    ELSE /\ writes' = writes \o <<BaseChunkWrite(options), EndChunkWrite(options, FALSE)>>
         /\ timers' = timers

\* the .then() callback of sendHeader's promise
ThenSendBody ==
  /\ pc = "headerSent"
  /\ pc' = "loop"
  /\ IF IsHasBodyRequest(options)
       THEN SendBody(options.targetTime)
       ELSE UNCHANGED <<writes, timers>>
  /\ UNCHANGED <<options, serverBytes, now, responseData, outcome, sock>>

\* the callback handed to doOnTargetTime
RunCallback(cb) ==
  CASE cb = "emptyRow" -> Append(writes, EmptyRowWrite(TRUE))
    [] cb = "endChunk" -> Append(writes, EndChunkWrite(options, TRUE))
    [] OTHER -> writes

\* one run of the setInterval callback of timer i
TimerCheck(i) ==
  /\ InEventLoop
  /\ timers[i].armed
  /\ IF TimeReached(now, timers[i].target)
       THEN /\ writes' = RunCallback(timers[i].cb)
            /\ timers' = [timers EXCEPT ![i] =
                 ClearInterval([timers[i] EXCEPT !.calledAt = Append(@, now)])]
       ELSE /\ writes' = writes
            /\ timers' = [timers EXCEPT ![i].lastIdle = now]
  /\ UNCHANGED <<options, serverBytes, now, pc, responseData, outcome, sock>>

\* socket.end()
SocketEndForgotten(s) == s
SocketEnd(s) == [s EXCEPT !.ended = TRUE]

\* socket.on('data'): the next k bytes of the server's response arrive
Data(k) ==
  /\ pc = "loop"
  /\ ~sock.errored /\ ~sock.peerEnded
  /\ Len(responseData) + k <= Len(serverBytes)
  /\ LET chunk == SubSeq(serverBytes, Len(responseData) + 1, Len(responseData) + k)
         buffer == responseData \o chunk
     IN /\ responseData' = buffer
        /\ outcome' = Resolve(outcome, ParseResponse(buffer), Len(buffer))
  /\ sock' = SocketEnd(sock)
  /\ UNCHANGED <<options, serverBytes, now, pc, timers, writes>>

\* socket.on('error', reject)
SocketError ==
  /\ pc = "loop"
  /\ ~sock.errored
  /\ sock' = [sock EXCEPT !.errored = TRUE]
  /\ outcome' = Reject(outcome, "socket")
  /\ UNCHANGED <<options, serverBytes, now, pc, timers, writes, responseData>>

\* the peer ends the stream; request() registers no 'end' or 'close' listener
PeerEnd ==
  /\ pc = "loop"
  /\ ~sock.errored /\ ~sock.peerEnded
  /\ sock' = [sock EXCEPT !.peerEnded = TRUE]
  /\ UNCHANGED <<options, serverBytes, now, pc, timers, writes, responseData,
                 outcome>>

Next ==
  \/ Tick
  \/ ConnectFail
  \/ Connected
  \/ ThenSendBody
  \/ \E i \in 1..Len(timers) : TimerCheck(i)
  \/ \E k \in 1..Len(serverBytes) : Data(k)
  \/ SocketError
  \/ PeerEnd

Spec == Init /\ [][Next]_vars

SpecResponses == InitResponses /\ [][Next]_vars

\* the clock keeps advancing, the queued .then() runs and an armed interval
\* keeps being run by the event loop; nothing is assumed of the peer
SpecTimed ==
  /\ InitTimed /\ [][Next]_vars
  /\ WF_vars(Tick)
  /\ WF_vars(ThenSendBody)
  /\ WF_vars(\E i \in 1..Len(timers) : TimerCheck(i))

----------------------------------------------------------------------------
(* Properties *)

TimerIds == 1..Len(timers)
WriteIds == 1..Len(writes)
HeaderSent == pc = "headerSent" \/ pc = "loop"
\* body non-empty and method neither GET nor HEAD
Bodied == options.body # <<>> /\ options.method \notin {"GET", "HEAD"}
BodyBytes == BufferFrom(options.body)
TargetOf(t) == GetTime(t)
HasUnit(u) == \E j \in WriteIds : writes[j].unit = u

\* C1: whenever a callback handed to doOnTargetTime was invoked, the clock
\* read at that check was not below the target time: no invocation is
\* recorded at a time earlier than the timer's target.
C1_NeverBeforeTarget ==
  \A i \in TimerIds : \A j \in 1..Len(timers[i].calledAt) :
    /\ ~timers[i].target.nan
    /\ timers[i].calledAt[j] >= timers[i].target.ms

\* a callback that fired after at least one check that found the target
\* time not yet reached
C1_Witness ==
  \E i \in TimerIds :
    /\ timers[i].calledAt # <<>>
    /\ timers[i].lastIdle > 0
    /\ timers[i].target.ms = MaxTarget

\* C2: a callback is invoked at most once, and at the first check whose
\* clock reading is at or past the target: every check that did not invoke
\* it read a time below the target, the interval is armed exactly as long as
\* the callback has not been invoked, and a cleared interval never invokes
\* the callback again.
C2_FiresOnceAtFirstCheck ==
  \A i \in TimerIds :
    /\ Len(timers[i].calledAt) <= 1
    /\ timers[i].armed <=> timers[i].calledAt = <<>>
    /\ timers[i].lastIdle > 0 =>
         timers[i].target.nan \/ timers[i].lastIdle < timers[i].target.ms
    /\ timers[i].calledAt # <<>> => timers[i].lastIdle < timers[i].calledAt[1]

\* the callback has fired, the interval is cleared and the clock has moved on
C2_Witness ==
  \E i \in TimerIds :
    /\ Len(timers[i].calledAt) = 1
    /\ ~timers[i].armed
    /\ now > timers[i].calledAt[1]

UnitRank(u) ==
  CASE u = "head" -> 1 [] u = "emptyRow" -> 2 [] u = "baseChunk" -> 3 [] OTHER -> 4

\* C3: the writes of one request() are issued in the order header bytes,
\* terminator, body bytes: no unit is written twice or after a later unit,
\* a terminator is preceded by the header bytes and a body write by the
\* terminator.
C3_WriteOrder ==
  /\ \A i, j \in WriteIds : i < j => UnitRank(writes[i].unit) < UnitRank(writes[j].unit)
  /\ \A j \in WriteIds :
       /\ writes[j].unit = "emptyRow" => \E i \in 1..(j - 1) : writes[i].unit = "head"
       /\ writes[j].unit \in {"baseChunk", "endChunk"} =>
            \E i \in 1..(j - 1) : writes[i].unit = "emptyRow"

\* all four units were written, the last one by the timer
C3_Witness ==
  /\ Len(writes) = 4
  /\ writes[4].unit = "endChunk" /\ writes[4].timed
  /\ Len(writes[3].bytes) > 0

\* C4: once sendHeader has run, the terminator was handed to the scheduler
\* exactly when targetTime is set (truthy) and the request is not bodied;
\* a scheduled terminator is written only by the timer, at a time not
\* below targetTime; otherwise it is the write that directly follows the
\* header bytes, in the same call, and no timer holds it.
C4_TerminatorDelayedIffUnbodiedTarget ==
  HeaderSent =>
    LET scheduled == \E i \in TimerIds : timers[i].cb = "emptyRow"
    IN /\ scheduled <=> (Truthy(options.targetTime) /\ ~Bodied)
       /\ scheduled =>
            \A j \in WriteIds : writes[j].unit = "emptyRow" =>
              /\ writes[j].timed
              /\ ~TargetOf(options.targetTime).nan
              /\ writes[j].at >= TargetOf(options.targetTime).ms
       /\ ~scheduled =>
            /\ Len(writes) >= 2
            /\ writes[1].unit = "head"
            /\ writes[2].unit = "emptyRow" /\ ~writes[2].timed
            /\ writes[2].at = writes[1].at

\* an unbodied request whose terminator was written by the timer after the
\* header bytes had been out for a while
C4_Witness ==
  /\ ~Bodied /\ options.body # <<>>
  /\ Len(writes) = 2
  /\ writes[2].unit = "emptyRow" /\ writes[2].timed
  /\ writes[2].at > writes[1].at

\* C5: for a bodied request, once sendBody has run: the third write, right
\* after the terminator, is the body without its last byte, not timed; with
\* targetTime set (truthy) the last byte is held by the one timer of the
\* request and written only by it, at a time not below targetTime; without
\* it the last byte is the fourth write, not timed. No other unit is timed.
C5_LastByteDelayed ==
  (Bodied /\ pc = "loop") =>
    /\ Len(writes) >= 3
    /\ writes[1].unit = "head" /\ writes[2].unit = "emptyRow"
    /\ writes[3].unit = "baseChunk"
    /\ writes[3].bytes = SubSeq(BodyBytes, 1, Len(BodyBytes) - 1)
    /\ \A j \in 1..3 : ~writes[j].timed
    /\ \A j \in WriteIds : writes[j].unit = "endChunk" =>
         writes[j].bytes = <<BodyBytes[Len(BodyBytes)]>>
    /\ IF Truthy(options.targetTime)
         THEN /\ Len(timers) = 1 /\ timers[1].cb = "endChunk"
              /\ \A j \in WriteIds : writes[j].unit = "endChunk" =>
                   /\ writes[j].timed
                   /\ ~TargetOf(options.targetTime).nan
                   /\ writes[j].at >= TargetOf(options.targetTime).ms
         ELSE /\ timers = <<>>
              /\ Len(writes) = 4
              /\ writes[4].unit = "endChunk" /\ ~writes[4].timed
              /\ writes[4].at = writes[3].at

\* a body of several bytes whose last byte was written by the timer, later
\* than the rest
C5_Witness ==
  /\ Bodied /\ pc = "loop"
  /\ Len(BodyBytes) >= 2
  /\ Len(writes) = 4 /\ writes[4].timed
  /\ writes[4].at > writes[3].at

\* header names compared without regard to letter case
LowerCase(name) ==
  CASE name = "Host" -> "host"
    [] name = "Connection" -> "connection"
    [] name = "Accept" -> "accept"
    [] name = "Content-Length" -> "content-length"
    [] name = "Transfer-Encoding" -> "transfer-encoding"
    [] OTHER -> name
IsContentLength(name) == LowerCase(name) = "content-length"
WrittenHeaders == IF writes = <<>> THEN <<>> ELSE writes[1].headers
ContentLengthEntries(obj) ==
  {obj[i] : i \in {k \in 1..Len(obj) : IsContentLength(obj[k][1])}}

\* C6 as stated: for GET and HEAD, whatever body and headers the caller
\* supplies, the written header block has no Content-Length header and no
\* body bytes are written.
C6_NoContentLengthNoBody ==
  options.method \in {"GET", "HEAD"} =>
    /\ ContentLengthEntries(WrittenHeaders) = {}
    /\ ~HasUnit("baseChunk") /\ ~HasUnit("endChunk")

\* C6 amended: for GET and HEAD, whatever body the caller supplies, no body
\* bytes are written (the terminator is the last write) and request() adds
\* no Content-Length of its own: the Content-Length entries of the written
\* header block are exactly those of the caller's headers.
C6_NoOwnContentLengthNoBody ==
  (options.method \in {"GET", "HEAD"} /\ HeaderSent) =>
    /\ ContentLengthEntries(WrittenHeaders) = ContentLengthEntries(options.headers)
    /\ ~HasUnit("baseChunk") /\ ~HasUnit("endChunk")
    /\ \A j \in WriteIds : writes[j].unit = "emptyRow" => j = Len(writes)

\* a GET with a body and no Content-Length of the caller's, fully written
C6_Witness ==
  /\ options.method = "GET" /\ options.body # <<>>
  /\ ContentLengthEntries(options.headers) = {}
  /\ pc = "loop" /\ Len(writes) = 2 /\ sock.ended

\* tokens of one write as they go on the wire
RECURSIVE HeaderLines(_)
HeaderLines(obj) ==
  IF obj = <<>> THEN <<>>
  ELSE <<Head(obj)[1] \o ": " \o Head(obj)[2]>>
         \o (IF Tail(obj) = <<>> THEN <<>> ELSE CRLF \o HeaderLines(Tail(obj)))
Wire(w) ==
  IF w.unit = "head" THEN <<w.line>> \o CRLF \o HeaderLines(w.headers) ELSE w.bytes
RECURSIVE WireAll(_)
WireAll(ws) == IF ws = <<>> THEN <<>> ELSE Wire(Head(ws)) \o WireAll(Tail(ws))

\* C7 as stated: for a bodied request, whatever headers the caller supplies,
\* every Content-Length header of the written header block (in any letter
\* case) carries the byte length of the body, a caller value being
\* overwritten, so there is exactly one; and once all four writes have
\* happened the bytes written are header bytes, CRLF CRLF, body, the body
\* split as all but the last byte, then the last byte.
C7_ContentLengthIsByteLength ==
  (Bodied /\ HeaderSent) =>
    /\ \A e \in ContentLengthEntries(WrittenHeaders) :
         e[2] = NumberToString(Len(BodyBytes))
    /\ Cardinality(ContentLengthEntries(WrittenHeaders)) = 1
    /\ Len(writes) = 4 =>
         /\ WireAll(writes) = Wire(writes[1]) \o EmptyRow \o BodyBytes
         /\ writes[3].bytes = SubSeq(BodyBytes, 1, Len(BodyBytes) - 1)
         /\ writes[4].bytes = <<BodyBytes[Len(BodyBytes)]>>

\* C8 as stated: whatever the chunking of the server's bytes, the response
\* request() resolves with is the one it resolves with when the same bytes
\* arrive as a single chunk.
C8_ChunkBoundaryInvariance ==
  outcome.state = "resolved" => outcome.value = ParseResponse(serverBytes)

HeadersOf(raw) == Finish(Execute(NewParser(raw))).headers
DeclaresContentLength(raw) ==
  \E i \in 1..Len(HeadersOf(raw)) : HeadersOf(raw)[i][1] = LcContentLength

\* C9 as stated: for a response that declares Content-Length N, request()
\* is resolved only once the bytes received hold the complete headers and N
\* body bytes, and it is resolved as soon as they do.
C9_ResolvesAtContentLength ==
  DeclaresContentLength(serverBytes) =>
    /\ outcome.state = "resolved" =>
         MessageComplete(SubSeq(serverBytes, 1, outcome.at))
    /\ MessageComplete(responseData) => outcome.state # "pending"

\* C10 as stated: once the bytes received hold a status line that cannot
\* be parsed, request() has rejected; it has not resolved with the
\* zero-valued response.
C10_ParseFailureRejects ==
  Execute(NewParser(responseData)).hadError =>
    /\ outcome.state = "rejected"
    /\ ~(outcome.state = "resolved" /\ outcome.value = ZeroResponse)

\* C11: once the socket has emitted an error while no response had been
\* resolved, request() has rejected, whether or not a delayed write is
\* still held by an armed timer.
C11_SocketErrorRejects ==
  (sock.errored /\ outcome.state # "resolved") =>
    /\ outcome.state = "rejected"
    /\ outcome.reason = "socket"

\* the socket failed before any data arrived, while the timer still holds
\* the delayed write
C11_Witness ==
  /\ sock.errored /\ responseData = <<>>
  /\ outcome.state = "rejected"
  /\ \E i \in TimerIds : timers[i].armed

\* C12 as stated: one request() delivers at most one outcome, which later
\* events never change, and an outcome that is a response was assembled
\* from the complete response: when the server's bytes form a whole message
\* and the promise is resolved, the bytes received by then held the whole
\* message (status line, headers and full body).
C12_OneCompleteOutcome ==
  [][ /\ outcome.state # "pending" => outcome' = outcome
      /\ (MessageComplete(serverBytes) /\ outcome'.state = "resolved") =>
           /\ outcome'.value.statusCode # 0
           /\ MessageComplete(SubSeq(serverBytes, 1, outcome'.at)) ]_vars

\* C13: whenever request() has resolved with a response, the transmitter
\* has called socket.end(): there is no state in which the promise is
\* resolved and the socket not ended by the transmitter.
C13_ResolvedImpliesEnded == outcome.state = "resolved" => sock.ended

\* resolved and ended while a timer still holds a delayed write
C13_Witness ==
  /\ outcome.state = "resolved" /\ sock.ended
  /\ \E i \in TimerIds : timers[i].armed

\* C14: the step in which doOnTargetTime is called never runs the callback,
\* even when the target time is already past: the new interval is armed and
\* has invoked nothing, and no timed write is issued in that step; the
\* callback runs only in a later timer check.
C14_NeverSynchronous ==
  [][ /\ \A i \in 1..Len(timers') :
           i > Len(timers) => timers'[i].armed /\ timers'[i].calledAt = <<>>
      /\ Len(timers') > Len(timers) =>
           \A j \in 1..Len(writes') : j > Len(writes) => ~writes'[j].timed ]_vars

\* doOnTargetTime has returned with a target already in the past, the
\* callback has not run and the caller's .then() has still to run
C14_Witness ==
  /\ pc = "headerSent"
  /\ \E i \in TimerIds :
       /\ timers[i].armed /\ timers[i].calledAt = <<>>
       /\ ~timers[i].target.nan /\ timers[i].target.ms < now

\* nothing of request() is left to run: the .then() has run and no interval
\* is armed
Quiescent == pc = "loop" /\ \A i \in TimerIds : ~timers[i].armed

\* C15 as stated: once the transport has delivered end-of-stream and nothing
\* of request() is left to run, the promise is settled; a peer that closes
\* without sending anything does not leave it pending.
C15_EndOfStreamSettles ==
  (sock.peerEnded /\ ~sock.errored /\ Quiescent) => outcome.state # "pending"

\* C16 as stated: the written header block holds no two names that differ
\* only in letter case, every header of the caller is written with the
\* caller's value, and every default is written unless the caller supplied
\* that name.
C16_HeaderMerge ==
  HeaderSent =>
    LET h == WrittenHeaders
        c == options.headers
    IN /\ \A i, j \in 1..Len(h) :
            i < j => LowerCase(h[i][1]) # LowerCase(h[j][1])
       /\ \A k \in 1..Len(c) : \E i \in 1..Len(h) : h[i] = c[k]
       /\ \A d \in 1..Len(DefaultHeaders) :
            \/ \E k \in 1..Len(c) :
                 LowerCase(c[k][1]) = LowerCase(DefaultHeaders[d][1])
            \/ \E i \in 1..Len(h) :
                 /\ LowerCase(h[i][1]) = LowerCase(DefaultHeaders[d][1])
                 /\ h[i][2] = DefaultHeaders[d][2]

\* the response's headers are complete and declare neither Content-Length
\* nor Transfer-Encoding: chunked
UntilClose(raw) ==
  LET ps == Execute(NewParser(raw))
  IN ~ps.hadError /\ ps.state = "BODY_RAW"

\* C17 as stated: for a response with neither Content-Length nor
\* Transfer-Encoding: chunked, request() is resolved only once the peer has
\* ended the stream, and with the body made of all body bytes received.
C17_ResolvesOnlyAtEndOfStream ==
  (UntilClose(serverBytes) /\ outcome.state = "resolved") =>
    /\ sock.peerEnded
    /\ outcome.value.body = ParseResponse(responseData).body

\* C18 as stated: once the bytes received hold a complete response and
\* request() has resolved, a further data event changes neither the
\* accumulated response bytes nor the socket.
C18_CompletionTerminal ==
  [][ (outcome.state = "resolved" /\ MessageComplete(responseData)
         /\ ~UntilClose(serverBytes)) =>
        /\ responseData' = responseData
        /\ sock'.ended = sock.ended ]_vars

\* C19 as stated: no write is issued on a socket the transmitter has
\* already ended.
C19_NoWriteAfterEnd == \A j \in WriteIds : ~writes[j].ended

\* C20 as stated: with the clock advancing and timer ticks delivered, an
\* armed interval is eventually cleared, whatever target time it was armed
\* with: none keeps polling forever. MaxTime is above every target a valid
\* time value denotes, so only a target that no clock reading reaches keeps
\* an interval armed once the clock is at MaxTime.
C20_EveryIntervalCleared ==
  (\E i \in TimerIds : timers[i].armed) ~> (\A i \in TimerIds : ~timers[i].armed)

====
